---- MODULE Spec2Model ----
(***************************************************************************)
(* Study-room client: the WebSocket service (lib/websocket.ts), the        *)
(* open-room page (pages/OpenStudyRoom.tsx) and the two group-room pages   *)
(* (pages/GroupStudyRoom.tsx and its WebSocket variant).                   *)
(*                                                                         *)
(* The specifications share the variables:                                 *)
(*   SpecTimeline  the open room's message timeline: history load, live    *)
(*                 events, accept-answer                                   *)
(*   SpecScenario  the timeline for one question, two answers, one accept  *)
(*   SpecWS        the WebSocket service driven by an arbitrary caller     *)
(*   SpecReconnect the WebSocket service with transport drops, disconnect  *)
(*                 reports and reconnect timers                            *)
(*   SpecLife      join / refresh / unmount / exit of the three pages      *)
(*   SpecChat      sending messages and answers over a transport that may  *)
(*                 drop                                                    *)
(***************************************************************************)
EXTENDS Integers, Sequences, FiniteSets, TLC

----------------------------------------------------------------------------
(* Bounds *)

\* number of messages the server stores and broadcasts in one run
MaxId == 4
\* room ids the WebSocket service is asked about
MaxRoom == 2
\* subscribe calls the harness makes for one key on one registration
MaxSubCalls == 2
\* clicks on the exit button of one mounted page
MaxExit == 2
\* reconnect timers pending at one time
MaxTimers == 2
\* re-runs of a mounted page's effects after a route parameter change
MaxRejoin == 2
MaxSeconds == 3
MaxMalformed == 2
MaxCallbacks == 3

----------------------------------------------------------------------------
(* Program constants *)

\* id given to a locally synthesised SYSTEM entry: Date.now(), a millisecond
\* timestamp far above every server-assigned id of the run
DateNow == 1000

RoomTypes == {"OPEN", "GROUP"}
RoomIds == 1..MaxRoom
Keys == RoomTypes \X RoomIds
\* the room the pages are mounted for
OpenKey == <<"OPEN", 1>>
GroupKey == <<"GROUP", 1>>

VARIABLES
  ws,            \* the WebSocketService singleton
  dupCalls,      \* per key: subscribe calls since the key was last absent
  lastInbound,   \* <<key, handler calls>> of the last inbound event, or <<>>
  messages,      \* open room: the timeline (useState messages)
  serverLog,     \* the server's durable message log of the room
  liveQueue,     \* events broadcast to this client and not yet handled
  hist,          \* loadChatHistory in flight: [state, snapshot]
  acceptPending, \* handleAcceptAnswer awaiting chatAPI.solveQuestion
  liveSeen,      \* ids handled by the live handler
  solveApplied,  \* per question id: SOLVE events / accept updates applied
  life           \* the mounted page: refs, state and calls in flight

wsVars == <<ws, dupCalls, lastInbound>>
tlVars == <<messages, serverLog, liveQueue, hist, acceptPending, liveSeen,
            solveApplied>>
vars == <<ws, dupCalls, lastInbound, messages, serverLog, liveQueue, hist,
          acceptPending, liveSeen, solveApplied, life>>

----------------------------------------------------------------------------
(* lib/websocket.ts : WebSocketService *)

NoBrokerSubs == [k \in Keys |-> 0]
NoCalls == [k \in Keys |-> 0]

maxReconnectAttempts == 5

\* private fields after construction.  client: "null", or a Client that is
\* "activating" (activated, transport not up) or "connected"; timers:
\* pending setTimeout callbacks of handleReconnect; closing: a deactivated
\* Client has not yet reported its disconnect; outcome: the callback invoked
\* or the branch logged by the last call that reports one; parseErrors:
\* "Failed to parse message" logs of the subscriptions' message callbacks;
\* orphaned: a Client that was activated and never deactivated is no longer
\* the one this.client refers to; cbs: whose callbacks the pending timers
\* and the deactivated Client hold, whose callback the last step invoked,
\* the callers that called connect (used) and those whose connect was
\* followed by disconnect(true) (retired)
Callbacks == {c \in {"cb1", "cb2", "cb3", "cb4"} :
                \E i \in 1..MaxCallbacks : c = <<"cb1", "cb2", "cb3", "cb4">>[i]}

NoCbs ==
  [timers |-> [c \in Callbacks |-> 0], closing |-> "none",
   invoked |-> "none", retired |-> {}, used |-> {}]

WSNew ==
  [client |-> "null", onConnected |-> "none", subscriptions |-> {},
   brokerSubs |-> NoBrokerSubs, reconnectAttempts |-> 0,
   shouldReconnect |-> TRUE, timers |-> 0, closing |-> FALSE,
   outcome |-> "none", parseErrors |-> 0, orphaned |-> FALSE,
   cbs |-> NoCbs]

\* the service right after the client's onConnect fired
WSConnected ==
  [WSNew EXCEPT !.client = "connected", !.onConnected = "page"]

\* subscribe without the already-subscribed check
subscribeNoCheck(w, key) ==
  IF w.client # "connected" THEN w
  ELSE [w EXCEPT !.subscriptions = @ \cup {key},
                 !.brokerSubs[key] = @ + 1]

\* subscribe(roomId, roomType, onMessage): brokerSubs counts the STOMP
\* subscriptions client.subscribe opened on the destination
subscribe(w, key) ==
  IF w.client # "connected" THEN w
  ELSE IF key \in w.subscriptions THEN w
  ELSE [w EXCEPT !.subscriptions = @ \cup {key},
                 !.brokerSubs[key] = @ + 1]

\* unsubscribe(roomId, roomType)
unsubscribe(w, key) ==
  IF key \in w.subscriptions
    THEN [w EXCEPT !.subscriptions = @ \ {key},
                   !.brokerSubs[key] = IF @ > 0 THEN @ - 1 ELSE 0]
    ELSE w

\* disconnect that leaves the registry as it is
disconnectKeepSubs(w, preventReconnect) ==
  LET w1 == [w EXCEPT !.shouldReconnect = ~preventReconnect]
  IN IF w.client # "null"
       THEN [w1 EXCEPT !.brokerSubs = NoBrokerSubs,
                       !.client = "null",
                       !.closing = TRUE]
       ELSE w1

\* disconnect(preventReconnect = true)
disconnect(w, preventReconnect) ==
  LET w1 == [w EXCEPT !.shouldReconnect = ~preventReconnect]
  IN IF w.client # "null"
       THEN [w1 EXCEPT !.subscriptions = {},
                       !.brokerSubs = NoBrokerSubs,
                       !.client = "null",
                       !.closing = TRUE]
       ELSE w1

\* connect without the already-connected return
connectNoReturn(w, hasToken, cb) ==
  IF ~hasToken THEN [w EXCEPT !.outcome = "connect:onError"]
  ELSE [w EXCEPT !.shouldReconnect = TRUE, !.client = "activating",
                 !.brokerSubs = NoBrokerSubs,
                 !.onConnected = cb, !.outcome = "connect:activate"]

\* connect without the token check
connectNoToken(w, hasToken, cb) ==
  IF w.client = "connected" THEN [w EXCEPT !.outcome = "connect:onConnected"]
  ELSE [w EXCEPT !.shouldReconnect = TRUE, !.client = "activating",
                 !.onConnected = cb, !.outcome = "connect:activate"]

\* connect(onConnected, onError) up to client.activate(); cb names the
\* onConnected closure the new Client keeps; a call on a connected service
\* runs the callback in the caller's action.  hasToken:
\* tokenManager.getToken() is not null
connect(w, hasToken, cb) ==
  IF w.client = "connected" THEN [w EXCEPT !.outcome = "connect:onConnected"]
  ELSE IF ~hasToken THEN [w EXCEPT !.outcome = "connect:onError"]
  ELSE [w EXCEPT !.shouldReconnect = TRUE, !.client = "activating",
                 !.onConnected = cb, !.outcome = "connect:activate",
                 !.orphaned = @ \/ w.client = "activating"]

\* Client.onConnect without the counter's reset
onConnectNoReset(w) ==
  [w EXCEPT !.client = "connected", !.outcome = "onConnect:onConnected"]

\* Client.onConnect
onConnect(w) ==
  [w EXCEPT !.client = "connected", !.reconnectAttempts = 0,
            !.outcome = "onConnect:onConnected"]

\* handleReconnect that schedules whatever the counter says
handleReconnectNoCap(w) ==
  IF ~w.shouldReconnect THEN [w EXCEPT !.outcome = "handleReconnect:disabled"]
  ELSE [w EXCEPT !.reconnectAttempts = @ + 1, !.timers = @ + 1,
                 !.outcome = "handleReconnect:scheduled"]

\* handleReconnect(onConnected, onError)
handleReconnect(w) ==
  IF ~w.shouldReconnect THEN [w EXCEPT !.outcome = "handleReconnect:disabled"]
  ELSE IF w.reconnectAttempts < maxReconnectAttempts
    THEN [w EXCEPT !.reconnectAttempts = @ + 1, !.timers = @ + 1,
                   !.outcome = "handleReconnect:scheduled"]
    ELSE [w EXCEPT !.outcome = "handleReconnect:onError"]

\* Client.onDisconnect
onDisconnect(w) ==
  IF w.shouldReconnect THEN handleReconnect(w)
  ELSE [w EXCEPT !.outcome = "onDisconnect:disabled"]

\* the timer callback without its shouldReconnect test
reconnectTimerNoTest(w, hasToken) ==
  connect([w EXCEPT !.timers = @ - 1], hasToken, w.onConnected)

\* the setTimeout callback of handleReconnect(onConnected, onError), cb
\* naming the callbacks its closure holds
reconnectTimerOf(w, hasToken, cb) ==
  LET w1 == [w EXCEPT !.timers = @ - 1]
  IN IF w1.shouldReconnect THEN connect(w1, hasToken, cb)
     ELSE [w1 EXCEPT !.outcome = "timer:disabled"]

\* the setTimeout callback where every connect passed the same callbacks
reconnectTimer(w, hasToken) == reconnectTimerOf(w, hasToken, w.onConnected)

\* sendMessage without the connected test
sendMessageNoTest(w) == [w EXCEPT !.outcome = "sendMessage:published"]

\* sendMessage(payload): throws "WebSocket not connected" or publishes
sendMessage(w) ==
  IF w.client # "connected" THEN [w EXCEPT !.outcome = "sendMessage:throw"]
  ELSE [w EXCEPT !.outcome = "sendMessage:published"]

\* isConnected()
isConnected(w) == w.client = "connected"

----------------------------------------------------------------------------
(* pages/OpenStudyRoom.tsx : timeline *)

\* a wire message (WebSocketMessage / history ChatMessage); 0 is "absent"
Wire(id, type, refId, isSolved) ==
  [id |-> id, messageId |-> 0, type |-> type, refId |-> refId,
   isSolved |-> isSolved]

\* wsMessage.id || wsMessage.messageId || 0
MessageIdOf(w) ==
  IF w.id # 0 THEN w.id ELSE IF w.messageId # 0 THEN w.messageId ELSE 0

\* a ChatMessage of the timeline; status "none" is undefined
Entry(id, type, refId, isSolved, status) ==
  [id |-> id, type |-> type, refId |-> refId, isSolved |-> isSolved,
   status |-> status, answers |-> <<>>]

\* a HelpAnswer; an undefined isAccepted is falsy
HelpAnswer(id) == [id |-> id, isAccepted |-> FALSE]

\* addSystemMessage(content)
addSystemMessage(msgs) ==
  Append(msgs, Entry(DateNow, "SYSTEM", 0, FALSE, "none"))

\* the ANSWER branch's map without the msg.type === "QUESTION" test
AttachLiveAnyType(msg, w) ==
  IF msg.id = w.refId
    THEN [msg EXCEPT !.answers = Append(@, HelpAnswer(MessageIdOf(w))),
                     !.status = "helping"]
    ELSE msg

\* one element of the ANSWER branch's prev.map
AttachLive(msg, w) ==
  IF msg.id = w.refId /\ msg.type = "QUESTION"
    THEN [msg EXCEPT !.answers = Append(@, HelpAnswer(MessageIdOf(w))),
                     !.status = "helping"]
    ELSE msg

\* one element of the SOLVE branch's prev.map
MarkSolved(msg, w) ==
  IF msg.id = w.refId /\ msg.type = "QUESTION"
    THEN [msg EXCEPT !.status = "resolved", !.isSolved = TRUE]
    ELSE msg

\* handleWebSocketMessage(wsMessage) as a function of the previous timeline
handleWebSocketMessage(msgs, w) ==
  LET newMessage == Entry(MessageIdOf(w), w.type, w.refId, w.isSolved, "none")
  IN CASE w.type = "QUESTION" ->
            Append(msgs, [newMessage EXCEPT !.status = "open"])
       [] w.type = "ANSWER" ->
            IF w.refId = 0 THEN msgs
            ELSE [i \in 1..Len(msgs) |-> AttachLive(msgs[i], w)]
       [] w.type = "SOLVE" ->
            addSystemMessage(
              IF w.refId # 0
                THEN [i \in 1..Len(msgs) |-> MarkSolved(msgs[i], w)]
                ELSE msgs)
       [] w.type = "SYSTEM" -> addSystemMessage(msgs)
       [] OTHER -> Append(msgs, newMessage)

\* response.map in loadChatHistory
BaseMessage(apiMsg) ==
  Entry(apiMsg.id, apiMsg.type, apiMsg.refId, apiMsg.isSolved,
        IF apiMsg.type = "QUESTION"
          THEN (IF apiMsg.isSolved THEN "resolved" ELSE "open")
          ELSE "none")

\* loadedMessages.find((m) => m.id === refId && m.type === "QUESTION"):
\* the index of the first match, 0 when there is none
FindQuestion(loaded, refId) ==
  LET hits == {i \in 1..Len(loaded) :
                 loaded[i].id = refId /\ loaded[i].type = "QUESTION"}
  IN IF hits = {} THEN 0 ELSE CHOOSE i \in hits : \A j \in hits : i <= j

\* one iteration of loadedMessages.forEach: attach answer i to its question
AttachLoaded(loaded, i) ==
  LET msg == loaded[i]
      q == FindQuestion(loaded, msg.refId)
  IN IF msg.type = "ANSWER" /\ msg.refId # 0 /\ q # 0
       THEN [loaded EXCEPT
               ![q].answers = Append(@, HelpAnswer(msg.id)),
               ![q].status = IF ~loaded[q].isSolved THEN "helping" ELSE @]
       ELSE loaded

RECURSIVE AttachAll(_, _)
AttachAll(loaded, i) ==
  IF i > Len(loaded) THEN loaded
  ELSE AttachAll(AttachLoaded(loaded, i), i + 1)

\* a filter that keeps every loaded message
KeepAll(m) == TRUE

\* loadedMessages.filter((m) => m.type !== "ANSWER")
NotAnswer(m) == m.type # "ANSWER"

\* loadChatHistory: the timeline it sets for a successful response
loadChatHistory(response) ==
  IF Len(response) = 0 THEN <<>>
  ELSE SelectSeq(AttachAll([i \in 1..Len(response) |->
                              BaseMessage(response[i])], 1),
                 NotAnswer)

\* handleAcceptAnswer's map marking every answer of the question
AcceptInMarkAll(msg, questionId, answerId) ==
  IF msg.id = questionId /\ msg.type = "QUESTION"
    THEN [msg EXCEPT
            !.answers = [j \in 1..Len(@) |-> [@[j] EXCEPT !.isAccepted = TRUE]],
            !.status = "resolved",
            !.isSolved = TRUE]
    ELSE msg

\* one element of handleAcceptAnswer's prev.map
AcceptIn(msg, questionId, answerId) ==
  IF msg.id = questionId /\ msg.type = "QUESTION"
    THEN [msg EXCEPT
            !.answers = [j \in 1..Len(@) |->
                           IF @[j].id = answerId
                             THEN [@[j] EXCEPT !.isAccepted = TRUE]
                             ELSE @[j]],
            !.status = "resolved",
            !.isSolved = TRUE]
    ELSE msg

\* handleAcceptAnswer after chatAPI.solveQuestion resolved
handleAcceptAnswer(msgs, questionId, answerId) ==
  [i \in 1..Len(msgs) |-> AcceptIn(msgs[i], questionId, answerId)]

\* the accept button is rendered for a question that is not resolved and
\* has answers
AcceptOffered(msgs, questionId, answerId) ==
  \E i \in 1..Len(msgs) :
    /\ msgs[i].id = questionId /\ msgs[i].type = "QUESTION"
    /\ msgs[i].status # "resolved"
    /\ \E j \in 1..Len(msgs[i].answers) : msgs[i].answers[j].id = answerId

----------------------------------------------------------------------------
(* The mounted room page: OpenStudyRoom.tsx ("open"), the group room with  *)
(* WebSocket chat ("groupws") and GroupStudyRoom.tsx ("grouprest")         *)

Pages == {"open", "groupws", "grouprest"}
Callers == {"exit", "unmount"}
Awaits == {"endSession", "endTimer", "leaveApi"}
NoTasks == [t \in Callers \X Awaits |-> 0]

\* refs and state of a page at mount, its join effect awaiting getRoom.
\* tasks: leave sequences in flight, by caller and awaited call;
\* leaveCalls / sessionEndCalls: requests issued to leave-membership and
\* session-end; blocked: leaveRoom calls that returned at the isLeavingRef
\* guard; torn: how the page was unmounted while joined and not leaving;
\* rejoins: re-runs of the effects; timedOut: the join's 30 s timer fired;
\* joinCalls / sessionStarts: requests issued to join-membership and
\* session-start; joinResult / leaveResult: how the last join-membership
\* and leave-membership call settled; myStatus, currentSeconds and
\* intervalRef (the 1 s interval exists) are the open room's study timer;
\* deleting: the handleDeleteQuestion call in flight
NoDelete == [questionId |-> 0, ok |-> FALSE]

Mounted(page) ==
  [page |-> page, mounted |-> "mounted", joinPc |-> "getRoom",
   hasJoined |-> FALSE, isLeaving |-> FALSE, marker |-> FALSE,
   sessionId |-> 0, tasks |-> NoTasks, exitClicks |-> 0,
   leaveCalls |-> 0, sessionEndCalls |-> 0, blocked |-> 0,
   torn |-> "no", joinCalls |-> 0, joinResult |-> "none",
   sessionStarts |-> 0, leaveResult |-> "none", rejoins |-> 0,
   timedOut |-> FALSE, myStatus |-> "studying", currentSeconds |-> 0,
   intervalRef |-> (page = "open"), deleting |-> NoDelete]

\* no page is mounted
NoPage == [Mounted("open") EXCEPT !.mounted = "unmounted", !.joinPc = "idle"]

----------------------------------------------------------------------------
(* The room's server, as the timeline sees it *)

NoPending == [questionId |-> 0, answerId |-> 0, ok |-> FALSE]
NoSolves == [q \in 1..MaxId |-> 0]

\* the server sends one MESSAGE frame per STOMP subscription on the topic
RECURSIVE Frames(_, _, _)
Frames(queue, e, n) ==
  IF n = 0 THEN queue ELSE Frames(Append(queue, e), e, n - 1)

Broadcast(queue, e) == Frames(queue, e, ws.brokerSubs[OpenKey])

IsQuestionAt(log, q) == q \in 1..Len(log) /\ log[q].type = "QUESTION"

HasAnswerIn(log, q) ==
  \E i \in 1..Len(log) : log[i].type = "ANSWER" /\ log[i].refId = q

\* the log after question q was solved: the stored question is flagged and
\* a SOLVE message is stored
SolvedLog(log, q) ==
  Append([log EXCEPT ![q].isSolved = TRUE],
         Wire(Len(log) + 1, "SOLVE", q, TRUE))

\* a participant posts a TALK, QUESTION, ANSWER or SYSTEM message
ServerPost(type, refId) ==
  /\ Len(serverLog) < MaxId
  /\ refId # 0 => type = "ANSWER"
  /\ LET e == Wire(Len(serverLog) + 1, type, refId, FALSE)
     IN /\ serverLog' = Append(serverLog, e)
        /\ liveQueue' = Broadcast(liveQueue, e)
  /\ UNCHANGED <<messages, hist, acceptPending, liveSeen, solveApplied>>
  /\ UNCHANGED <<wsVars, life>>

\* another participant accepts an answer of question q
ServerSolve(q) ==
  /\ Len(serverLog) < MaxId
  /\ IsQuestionAt(serverLog, q)
  /\ HasAnswerIn(serverLog, q)
  /\ serverLog' = SolvedLog(serverLog, q)
  /\ liveQueue' = Broadcast(liveQueue, serverLog'[Len(serverLog')])
  /\ UNCHANGED <<messages, hist, acceptPending, liveSeen, solveApplied>>
  /\ UNCHANGED <<wsVars, life>>

\* GET /api/chat/room/{id}?page=0 is answered from the log
ServeHistory ==
  /\ hist.state = "requested"
  /\ hist' = [state |-> "served", snapshot |-> serverLog]
  /\ UNCHANGED <<messages, serverLog, liveQueue, acceptPending, liveSeen,
                 solveApplied>>
  /\ UNCHANGED <<wsVars, life>>

----------------------------------------------------------------------------
(* pages/OpenStudyRoom.tsx : the timeline's handlers *)

HasQuestion(msgs, q) ==
  \E i \in 1..Len(msgs) : msgs[i].id = q /\ msgs[i].type = "QUESTION"

\* the connect callback of joinRoom: loadChatHistory(roomIdNum) is started
\* and not awaited, then the topic is subscribed
ConnectCallback ==
  /\ isConnected(ws)
  /\ hist.state = "idle"
  /\ hist' = [hist EXCEPT !.state = "requested"]
  /\ ws' = subscribe(ws, OpenKey)
  /\ UNCHANGED <<dupCalls, lastInbound, life>>
  /\ UNCHANGED <<messages, serverLog, liveQueue, acceptPending, liveSeen,
                 solveApplied>>

\* loadChatHistory resumes with the response
HistoryResponse ==
  /\ hist.state = "served"
  /\ messages' = loadChatHistory(hist.snapshot)
  /\ hist' = [hist EXCEPT !.state = "done"]
  /\ solveApplied' = NoSolves
  /\ UNCHANGED <<serverLog, liveQueue, acceptPending, liveSeen>>
  /\ UNCHANGED <<wsVars, life>>

\* loadChatHistory's catch: the request failed
HistoryFail ==
  /\ hist.state \in {"requested", "served"}
  /\ messages' = <<>>
  /\ hist' = [hist EXCEPT !.state = "failed"]
  /\ solveApplied' = NoSolves
  /\ UNCHANGED <<serverLog, liveQueue, acceptPending, liveSeen>>
  /\ UNCHANGED <<wsVars, life>>

\* the subscription callback hands the next frame to handleWebSocketMessage
LiveDeliver ==
  /\ liveQueue # <<>>
  /\ LET w == Head(liveQueue)
     IN /\ messages' = handleWebSocketMessage(messages, w)
        /\ liveSeen' = liveSeen \cup {MessageIdOf(w)}
        /\ solveApplied' =
             IF w.type = "SOLVE" /\ w.refId # 0 /\ HasQuestion(messages, w.refId)
               THEN [solveApplied EXCEPT ![w.refId] = @ + 1]
               ELSE solveApplied
  /\ liveQueue' = Tail(liveQueue)
  /\ UNCHANGED <<serverLog, hist, acceptPending>>
  /\ UNCHANGED <<wsVars, life>>

\* handleAcceptAnswer up to its await: PATCH solve(questionId, answerId)
\* reaches the server, which solves the question or answers with an error
AcceptRequest(questionId, answerId, ok) ==
  /\ acceptPending = NoPending
  /\ AcceptOffered(messages, questionId, answerId)
  /\ acceptPending' =
       [questionId |-> questionId, answerId |-> answerId, ok |-> ok]
  /\ IF ok
       THEN /\ Len(serverLog) < MaxId
            /\ IsQuestionAt(serverLog, questionId)
            /\ serverLog' = SolvedLog(serverLog, questionId)
            /\ liveQueue' = Broadcast(liveQueue, serverLog'[Len(serverLog')])
       ELSE UNCHANGED <<serverLog, liveQueue>>
  /\ UNCHANGED <<messages, hist, liveSeen, solveApplied>>
  /\ UNCHANGED <<wsVars, life>>

\* handleAcceptAnswer after its await
AcceptResponse ==
  /\ acceptPending # NoPending
  /\ IF acceptPending.ok
       THEN /\ messages' = handleAcceptAnswer(messages,
                             acceptPending.questionId, acceptPending.answerId)
            /\ solveApplied' =
                 IF HasQuestion(messages, acceptPending.questionId)
                   THEN [solveApplied EXCEPT
                           ![acceptPending.questionId] = @ + 1]
                   ELSE solveApplied
       ELSE UNCHANGED <<messages, solveApplied>>
  /\ acceptPending' = NoPending
  /\ UNCHANGED <<serverLog, liveQueue, hist, liveSeen>>
  /\ UNCHANGED <<wsVars, life>>

\* handleDeleteQuestion after chatAPI.deleteMessage resolved
handleDeleteQuestion(msgs, questionId) ==
  LET Other(m) == m.id # questionId
  IN SelectSeq(msgs, Other)

\* handleDeleteQuestion up to its await: DELETE /api/chat/message/{id}
\* reaches the server, which deletes the question or answers with an error
DeleteRequest(questionId, ok) ==
  /\ life.deleting = NoDelete
  /\ HasQuestion(messages, questionId)
  /\ life' = [life EXCEPT !.deleting = [questionId |-> questionId, ok |-> ok]]
  /\ IF ok
       THEN /\ IsQuestionAt(serverLog, questionId)
            /\ serverLog' = [serverLog EXCEPT ![questionId].type = "DELETED"]
       ELSE UNCHANGED serverLog
  /\ UNCHANGED <<messages, liveQueue, hist, acceptPending, liveSeen,
                 solveApplied>>
  /\ UNCHANGED wsVars

\* handleDeleteQuestion after its await, the filter being applied whatever
\* the call's result
DeleteResponseAlways ==
  /\ life.deleting # NoDelete
  /\ messages' = handleDeleteQuestion(messages, life.deleting.questionId)
  /\ life' = [life EXCEPT !.deleting = NoDelete]
  /\ UNCHANGED <<serverLog, liveQueue, hist, acceptPending, liveSeen,
                 solveApplied>>
  /\ UNCHANGED wsVars

\* handleDeleteQuestion after its await
DeleteResponse ==
  /\ life.deleting # NoDelete
  /\ IF life.deleting.ok
       THEN messages' =
              handleDeleteQuestion(messages, life.deleting.questionId)
       ELSE UNCHANGED messages
  /\ life' = [life EXCEPT !.deleting = NoDelete]
  /\ UNCHANGED <<serverLog, liveQueue, hist, acceptPending, liveSeen,
                 solveApplied>>
  /\ UNCHANGED wsVars

InitTimeline ==
  /\ ws = WSConnected
  /\ life = NoPage
  /\ dupCalls = NoCalls /\ lastInbound = <<>>
  /\ messages = <<>>
  /\ serverLog = <<>>
  /\ liveQueue = <<>>
  /\ hist = [state |-> "idle", snapshot |-> <<>>]
  /\ acceptPending = NoPending
  /\ liveSeen = {}
  /\ solveApplied = NoSolves

NextTimeline ==
  \/ \E type \in {"TALK", "QUESTION", "ANSWER", "SYSTEM"} :
       \E refId \in 0..MaxId :
         refId <= Len(serverLog) /\ ServerPost(type, refId)
  \/ \E q \in 1..MaxId : ServerSolve(q)
  \/ ServeHistory
  \/ ConnectCallback
  \/ HistoryResponse
  \/ HistoryFail
  \/ LiveDeliver
  \/ \E q \in 1..MaxId : \E a \in 1..MaxId : \E ok \in BOOLEAN :
       AcceptRequest(q, a, ok)
  \/ AcceptResponse

SpecTimeline == InitTimeline /\ [][NextTimeline]_vars

----------------------------------------------------------------------------
(* Timeline claims *)

\* how many answers with id a are attached to questions with id q
AttachedCount(msgs, q, a) ==
  Cardinality({<<i, j>> \in (1..Len(msgs)) \X (1..MaxId + 1) :
                 /\ msgs[i].id = q /\ msgs[i].type = "QUESTION"
                 /\ j <= Len(msgs[i].answers)
                 /\ msgs[i].answers[j].id = a})

AcceptedCount(msg) ==
  Cardinality({j \in 1..Len(msg.answers) : msg.answers[j].isAccepted})

\* ids present in the timeline, as entries or as attached answers
IdsIn(msgs) ==
  {msgs[i].id : i \in 1..Len(msgs)} \cup
  UNION {{msgs[i].answers[j].id : j \in 1..Len(msgs[i].answers)} :
           i \in 1..Len(msgs)}

\* the step hands the head of the live queue to handleWebSocketMessage
LiveStep == liveQueue # <<>> /\ liveQueue' = Tail(liveQueue)

\* C1: once the history response and every live frame have been handled,
\* each ANSWER that was delivered live for a QUESTION of history page 0 is
\* attached to that question exactly once
C1_HistoryThenLive ==
  (hist.state = "done" /\ liveQueue = <<>>) =>
    \A q \in 1..Len(hist.snapshot) : \A a \in liveSeen :
      ( /\ hist.snapshot[q].type = "QUESTION"
        /\ a \in 1..Len(serverLog)
        /\ serverLog[a].type = "ANSWER"
        /\ serverLog[a].refId = q )
      => AttachedCount(messages, q, a) = 1

\* C2: a live event whose id is already in the timeline (as an entry or as
\* an attached answer) leaves the timeline unchanged
C2_DuplicateIdNoOp ==
  [][(LiveStep /\ MessageIdOf(Head(liveQueue)) \in IdsIn(messages))
       => messages' = messages]_vars

\* C8: the second solve application (SOLVE event or local accept update) to
\* a question with answers leaves it resolved with exactly one accepted
\* answer and does not change its status
C8_SolveIdempotent ==
  [][\A i \in 1..Len(messages) :
       ( /\ messages[i].type = "QUESTION"
         /\ Len(messages[i].answers) >= 1
         /\ solveApplied[messages[i].id] >= 1
         /\ solveApplied'[messages[i].id] = solveApplied[messages[i].id] + 1 )
       => ( /\ messages'[i].status = "resolved"
            /\ messages'[i].status = messages[i].status
            /\ AcceptedCount(messages'[i]) = 1 )]_vars

\* C9: a resolved question holds exactly one accepted answer
C9_ResolvedHasOneAccepted ==
  \A i \in 1..Len(messages) :
    (messages[i].type = "QUESTION" /\ messages[i].status = "resolved")
      => AcceptedCount(messages[i]) = 1

\* C10: a live ANSWER changes a question's status only when it is open
C10_AnswerOnlyAdvancesOpen ==
  [][(LiveStep /\ Head(liveQueue).type = "ANSWER")
       => \A i \in 1..Len(messages) :
            (messages[i].type = "QUESTION" /\ messages[i].status # "open")
              => messages'[i].status = messages[i].status]_vars

\* the log entry a live id was broadcast from is an ANSWER without a parent
\* question: no refId, or a refId that names a message of another type
OrphanInLog(a) ==
  /\ a \in 1..Len(serverLog)
  /\ serverLog[a].type = "ANSWER"
  /\ \/ serverLog[a].refId = 0
     \/ serverLog[serverLog[a].refId].type # "QUESTION"

\* C11: a live ANSWER whose refId is missing or names no QUESTION of the
\* current timeline leaves the timeline unchanged, and the handler goes on
\* to the next frame
C11_OrphanAnswerDropped ==
  [][(/\ LiveStep
      /\ Head(liveQueue).type = "ANSWER"
      /\ \/ Head(liveQueue).refId = 0
         \/ ~HasQuestion(messages, Head(liveQueue).refId))
       => messages' = messages]_vars

\* an orphan ANSWER was handled, a later event was handled after it and is
\* in the timeline
C11_Witness ==
  \E a \in liveSeen : \E b \in liveSeen :
    /\ OrphanInLog(a)
    /\ b > a
    /\ \E i \in 1..Len(messages) : messages[i].id = b

\* C12: no entry of the open room's timeline has type ANSWER
C12_NoAnswerEntries ==
  \A i \in 1..Len(messages) : messages[i].type # "ANSWER"

\* a history page holding an ANSWER was loaded and a live ANSWER was
\* attached after it
C12_Witness ==
  /\ hist.state = "done"
  /\ \E i \in 1..Len(hist.snapshot) : hist.snapshot[i].type = "ANSWER"
  /\ \E a \in liveSeen :
       /\ a > Len(hist.snapshot)
       /\ \E i \in 1..Len(messages) : AttachedCount(messages, messages[i].id, a) >= 1

----------------------------------------------------------------------------
(* The question / two answers / accept scenario: the room receives one      *)
(* QUESTION and two ANSWERs to it, and this client accepts the first answer *)

Script ==
  << [type |-> "QUESTION", refId |-> 0],
     [type |-> "ANSWER", refId |-> 1],
     [type |-> "ANSWER", refId |-> 1] >>

\* the participants post the next message of the script
ScriptPost ==
  /\ Len(serverLog) < Len(Script)
  /\ ServerPost(Script[Len(serverLog) + 1].type,
                Script[Len(serverLog) + 1].refId)

NextScenario ==
  \/ ScriptPost
  \/ ServeHistory
  \/ ConnectCallback
  \/ HistoryResponse
  \/ HistoryFail
  \/ LiveDeliver
  \/ \E ok \in BOOLEAN : AcceptRequest(1, 2, ok)
  \/ AcceptResponse

SpecScenario == InitTimeline /\ [][NextScenario]_vars

\* the scenario ran to its end on a timeline built from live events only:
\* the log is QUESTION 1, ANSWER 2, ANSWER 3, SOLVE 4, all four were handled
\* live, the accept call returned, and no history response was applied
ScenarioDone ==
  /\ Len(serverLog) = 4
  /\ serverLog[4].type = "SOLVE"
  /\ liveSeen = {1, 2, 3, 4}
  /\ liveQueue = <<>>
  /\ acceptPending = NoPending
  /\ hist.state \in {"requested", "served"}

\* C13: at the end of the scenario the timeline is one resolved QUESTION
\* with answers 2 (accepted) and 3 (not accepted) followed by one SYSTEM
\* entry, and no ANSWER entry
C13_ScenarioEndState ==
  ScenarioDone =>
    /\ Len(messages) = 2
    /\ messages[1].type = "QUESTION" /\ messages[1].id = 1
    /\ messages[1].status = "resolved"
    /\ messages[1].answers =
         << [id |-> 2, isAccepted |-> TRUE], [id |-> 3, isAccepted |-> FALSE] >>
    /\ messages[2].type = "SYSTEM"
    /\ \A i \in 1..Len(messages) : messages[i].type # "ANSWER"

\* the scenario's end was reached with the question resolved
C13_Witness ==
  /\ ScenarioDone
  /\ Len(messages) >= 1
  /\ messages[1].status = "resolved"
  /\ solveApplied[1] = 2

----------------------------------------------------------------------------
(* lib/websocket.ts driven by an arbitrary caller *)

\* connect(onConnected, onError) is called
WsConnect(hasToken) ==
  /\ ws' = connect(ws, hasToken, "none")
  /\ UNCHANGED <<dupCalls, lastInbound>>
  /\ UNCHANGED <<tlVars, life>>

\* the transport is up: Client.onConnect
WsOnConnect ==
  /\ ws.client = "activating"
  /\ ws' = onConnect(ws)
  /\ UNCHANGED <<dupCalls, lastInbound>>
  /\ UNCHANGED <<tlVars, life>>

\* subscribe(roomId, roomType, handler) is called
WsSubscribe(key) ==
  /\ dupCalls[key] < MaxSubCalls
  /\ ws' = subscribe(ws, key)
  /\ dupCalls' = IF isConnected(ws)
                   THEN [dupCalls EXCEPT ![key] = @ + 1]
                   ELSE dupCalls
  /\ UNCHANGED lastInbound
  /\ UNCHANGED <<tlVars, life>>

\* unsubscribe(roomId, roomType) is called
WsUnsubscribe(key) ==
  /\ ws' = unsubscribe(ws, key)
  /\ dupCalls' = [dupCalls EXCEPT ![key] = 0]
  /\ UNCHANGED lastInbound
  /\ UNCHANGED <<tlVars, life>>

\* disconnect(preventReconnect) is called
WsDisconnect(preventReconnect) ==
  /\ ws' = disconnect(ws, preventReconnect)
  /\ dupCalls' = IF ws.client # "null" THEN NoCalls ELSE dupCalls
  /\ UNCHANGED lastInbound
  /\ UNCHANGED <<tlVars, life>>

\* one event is published on a topic: the broker sends one MESSAGE frame per
\* STOMP subscription, and each frame's callback calls the handler once
WsInbound(key) ==
  /\ ws.brokerSubs[key] > 0
  /\ lastInbound' = <<key, ws.brokerSubs[key]>>
  /\ UNCHANGED <<ws, dupCalls>>
  /\ UNCHANGED <<tlVars, life>>

InitWS ==
  /\ ws = WSNew
  /\ life = NoPage
  /\ dupCalls = NoCalls /\ lastInbound = <<>>
  /\ messages = <<>>
  /\ serverLog = <<>>
  /\ liveQueue = <<>>
  /\ hist = [state |-> "idle", snapshot |-> <<>>]
  /\ acceptPending = NoPending
  /\ liveSeen = {}
  /\ solveApplied = NoSolves

NextWS ==
  \/ \E hasToken \in BOOLEAN : WsConnect(hasToken)
  \/ WsOnConnect
  \/ \E key \in Keys : WsSubscribe(key)
  \/ \E key \in Keys : WsUnsubscribe(key)
  \/ \E p \in BOOLEAN : WsDisconnect(p)
  \/ \E key \in Keys : WsInbound(key)

SpecWS == InitWS /\ [][NextWS]_vars

\* C7: whatever number of subscribe calls were made for a pair on the
\* connected service, the registry holds the pair once, the transport holds
\* one subscription for it, and an inbound event calls the handler once
C7_IdempotentSubscribe ==
  /\ \A key \in Keys :
       ws.brokerSubs[key] = IF key \in ws.subscriptions THEN 1 ELSE 0
  /\ \A key \in Keys : dupCalls[key] >= 1 => key \in ws.subscriptions
  /\ lastInbound # <<>> => lastInbound[2] = 1

\* a pair subscribed twice on one connection received an event
C7_Witness ==
  \E key \in Keys :
    /\ dupCalls[key] >= 2
    /\ key \in ws.subscriptions
    /\ lastInbound = <<key, 1>>

----------------------------------------------------------------------------
(* lib/websocket.ts : whose callbacks are invoked.  Every connect call     *)
(* passes closures of its own                                              *)

\* the caller whose onConnected or onError a connect(cb) call invokes
\* before it returns
connectInvokes(w, hasToken, cb) ==
  IF w.client = "connected" THEN cb
  ELSE IF ~hasToken THEN cb
  ELSE "none"

\* the bookkeeping of a Client's onDisconnect, cb naming the callbacks its
\* closure holds: a timer keeps them, or onError is invoked at the cap
Reported(before, after, cb) ==
  IF after.timers > before.timers
    THEN [after EXCEPT !.cbs.timers[cb] = @ + 1, !.cbs.invoked = "none"]
  ELSE IF after.outcome = "handleReconnect:onError"
    THEN [after EXCEPT !.cbs.invoked = cb]
  ELSE [after EXCEPT !.cbs.invoked = "none"]

CbConnect(cb, hasToken) ==
  /\ cb \notin ws.cbs.used
  /\ ws' = [connect(ws, hasToken, cb) EXCEPT
              !.cbs.used = @ \cup {cb},
              !.cbs.invoked = connectInvokes(ws, hasToken, cb)]
  /\ UNCHANGED <<dupCalls, lastInbound>>
  /\ UNCHANGED <<tlVars, life>>

CbOnConnect ==
  /\ ws.client = "activating"
  /\ ws' = [onConnect(ws) EXCEPT !.cbs.invoked = ws.onConnected]
  /\ UNCHANGED <<dupCalls, lastInbound>>
  /\ UNCHANGED <<tlVars, life>>

CbDisconnect(preventReconnect) ==
  /\ ws' = [disconnect(ws, preventReconnect) EXCEPT
              !.cbs.closing = IF ws.client # "null" THEN ws.onConnected ELSE @,
              !.cbs.invoked = "none",
              !.cbs.retired = IF preventReconnect
                                THEN @ \cup ws.cbs.used
                                ELSE @]
  /\ UNCHANGED <<dupCalls, lastInbound>>
  /\ UNCHANGED <<tlVars, life>>

\* the transport of the current Client fails
CbDrop(notified) ==
  /\ ws.client # "null"
  /\ ws.timers < MaxTimers
  /\ LET w1 == [ws EXCEPT !.client = "activating",
                          !.brokerSubs = NoBrokerSubs]
     IN ws' = IF notified
                THEN Reported(ws, onDisconnect(w1), ws.onConnected)
                ELSE [w1 EXCEPT !.cbs.invoked = "none"]
  /\ UNCHANGED <<dupCalls, lastInbound>>
  /\ UNCHANGED <<tlVars, life>>

\* the Client deactivated by disconnect() reports its disconnect
CbClosed ==
  /\ ws.closing
  /\ ws.timers < MaxTimers
  /\ ws' = Reported(ws, onDisconnect([ws EXCEPT !.closing = FALSE]),
                    ws.cbs.closing)
  /\ UNCHANGED <<dupCalls, lastInbound>>
  /\ UNCHANGED <<tlVars, life>>

\* the reconnect timer that holds cb's callbacks fires
CbTimer(cb, hasToken) ==
  /\ ws.cbs.timers[cb] > 0
  /\ ws' = [reconnectTimerOf(ws, hasToken, cb) EXCEPT
              !.cbs.timers[cb] = @ - 1,
              !.cbs.invoked = IF ws.shouldReconnect
                                THEN connectInvokes(ws, hasToken, cb)
                                ELSE "none"]
  /\ UNCHANGED <<dupCalls, lastInbound>>
  /\ UNCHANGED <<tlVars, life>>

NextCallbacks ==
  \/ \E cb \in Callbacks : \E hasToken \in BOOLEAN : CbConnect(cb, hasToken)
  \/ CbOnConnect
  \/ \E p \in BOOLEAN : CbDisconnect(p)
  \/ \E notified \in BOOLEAN : CbDrop(notified)
  \/ CbClosed
  \/ \E cb \in Callbacks : \E hasToken \in BOOLEAN : CbTimer(cb, hasToken)

SpecCallbacks == InitWS /\ [][NextCallbacks]_vars

----------------------------------------------------------------------------
(* lib/websocket.ts : the message callback of a subscription *)

\* the message callback without its try / catch around JSON.parse: the
\* body is handed to the handler as it is
messageCallbackNoParse(parses) == 1

\* the message callback of client.subscribe: the handler calls it makes for
\* one frame, whose body JSON.parse accepts (parses) or throws on
messageCallback(parses) == IF parses THEN 1 ELSE 0

\* one frame per STOMP subscription of the topic reaches its callback
WsMessage(key, parses) ==
  /\ ws.brokerSubs[key] > 0
  /\ parses \/ ws.parseErrors < MaxMalformed
  /\ lastInbound' = <<key, ws.brokerSubs[key] * messageCallback(parses)>>
  /\ ws' = IF parses
             THEN [ws EXCEPT !.outcome = "message:handler"]
             ELSE [ws EXCEPT !.outcome = "message:parseError",
                             !.parseErrors = @ + 1]
  /\ UNCHANGED dupCalls
  /\ UNCHANGED <<tlVars, life>>

NextInbound ==
  \/ \E hasToken \in BOOLEAN : WsConnect(hasToken)
  \/ WsOnConnect
  \/ \E key \in Keys : WsSubscribe(key)
  \/ \E key \in Keys : WsUnsubscribe(key)
  \/ \E p \in BOOLEAN : WsDisconnect(p)
  \/ \E key \in Keys : \E parses \in BOOLEAN : WsMessage(key, parses)

SpecInbound == InitWS /\ [][NextInbound]_vars

\* C31: a frame whose body does not parse calls no handler and leaves the
\* registry, the transport's subscriptions and the Client as they are; a
\* frame that parses calls the handler of its topic, whatever frames came
\* before it
C31_MalformedDropped ==
  [][ \A key \in Keys :
        /\ WsMessage(key, FALSE) =>
             /\ lastInbound' = <<key, 0>>
             /\ ws'.subscriptions = ws.subscriptions
             /\ ws'.brokerSubs = ws.brokerSubs
             /\ ws'.client = ws.client
        /\ WsMessage(key, TRUE) =>
             /\ lastInbound'[1] = key
             /\ lastInbound'[2] >= 1 ]_vars

\* C31 witness: a frame was delivered to its handler after frames that did
\* not parse, two topics being subscribed
C31_Witness ==
  /\ ws.parseErrors > 0
  /\ ws.outcome = "message:handler"
  /\ lastInbound # <<>> /\ lastInbound[2] >= 1
  /\ Cardinality(ws.subscriptions) >= 2

----------------------------------------------------------------------------
(* lib/websocket.ts with an unreliable transport: drops, the disconnect    *)
(* report of a deactivated Client, reconnect timers                        *)

RoomKeys == {OpenKey, GroupKey}

\* the transport of the current Client fails or its connection attempt
\* fails: the broker's subscriptions are gone, the Client (configured with
\* reconnectDelay) is unconnected again; notified: its onDisconnect runs
WsDrop(notified) ==
  /\ ws.client # "null"
  /\ ws.timers < MaxTimers
  /\ LET w1 == [ws EXCEPT !.client = "activating",
                          !.brokerSubs = NoBrokerSubs]
     IN ws' = IF notified THEN onDisconnect(w1) ELSE w1
  /\ UNCHANGED <<dupCalls, lastInbound>>
  /\ UNCHANGED <<tlVars, life>>

\* the Client deactivated by disconnect() reports its disconnect
WsClosed ==
  /\ ws.closing
  /\ ws.timers < MaxTimers
  /\ ws' = onDisconnect([ws EXCEPT !.closing = FALSE])
  /\ UNCHANGED <<dupCalls, lastInbound>>
  /\ UNCHANGED <<tlVars, life>>

\* a reconnect timer fires
WsTimer(hasToken) ==
  /\ ws.timers > 0
  /\ ws' = reconnectTimer(ws, hasToken)
  /\ UNCHANGED <<dupCalls, lastInbound>>
  /\ UNCHANGED <<tlVars, life>>

\* sendMessage(payload) is called
WsSend ==
  /\ ws' = sendMessage(ws)
  /\ UNCHANGED <<dupCalls, lastInbound>>
  /\ UNCHANGED <<tlVars, life>>

NextReconnect ==
  \/ \E hasToken \in BOOLEAN : WsConnect(hasToken)
  \/ WsOnConnect
  \/ \E key \in RoomKeys : WsSubscribe(key)
  \/ \E key \in RoomKeys : WsUnsubscribe(key)
  \/ \E p \in BOOLEAN : WsDisconnect(p)
  \/ \E key \in RoomKeys : WsInbound(key)
  \/ \E notified \in BOOLEAN : WsDrop(notified)
  \/ WsClosed
  \/ \E hasToken \in BOOLEAN : WsTimer(hasToken)
  \/ WsSend

SpecReconnect == InitWS /\ [][NextReconnect]_vars

\* the step runs a Client's onDisconnect callback
DisconnectReported == WsDrop(TRUE) \/ WsClosed

C30_ReconnectCounter ==
  [][ /\ ws.reconnectAttempts \in 0..maxReconnectAttempts
      /\ ws'.reconnectAttempts \in 0..maxReconnectAttempts
      /\ ws'.reconnectAttempts > ws.reconnectAttempts =>
           /\ ws'.reconnectAttempts = ws.reconnectAttempts + 1
           /\ ws'.timers = ws.timers + 1
      /\ ws'.timers > ws.timers =>
           ws'.reconnectAttempts = ws.reconnectAttempts + 1
      /\ WsOnConnect => ws'.reconnectAttempts = 0 ]_vars

\* C30 witness: the connection was made again while a counted reconnect
\* timer is still pending, and the counter is back at 0
C30_Witness ==
  /\ ws.client = "connected"
  /\ ws.outcome = "onConnect:onConnected"
  /\ ws.timers > 0
  /\ ws.reconnectAttempts = 0

\* C35: a subscribe call made for a room on the connected service (as the
\* onConnected callback makes it after a reconnect) leaves the room
\* subscribed on the current transport, so that its events reach the
\* handler
C35_SubscribeAfterReconnect ==
  [][ \A key \in RoomKeys :
        (WsSubscribe(key) /\ ws.client = "connected") =>
          /\ key \in ws'.subscriptions
          /\ ws'.brokerSubs[key] >= 1 ]_vars

\* C38: no Client is created while an earlier one is activated and was not
\* deactivated: every activated Client is the one the service refers to
C38_OneActivatedTransport == ~ws.orphaned

\* C40: a callback passed to a connect call that was followed by
\* disconnect(true) is not invoked afterwards
C40_NoCallbackAfterDisconnect == ws.cbs.invoked \notin ws.cbs.retired

\* C16: while shouldReconnect is false (after disconnect(true), before the
\* next connect call), a reported disconnect and a firing reconnect timer
\* create no Client, schedule nothing and count nothing
C16_NoReconnectWhenPrevented ==
  [][ (~ws.shouldReconnect /\
       (DisconnectReported \/ \E hasToken \in BOOLEAN : WsTimer(hasToken)))
      => /\ ws'.client = "null"
         /\ ws'.timers <= ws.timers
         /\ ws'.reconnectAttempts = ws.reconnectAttempts
         /\ ~ws'.shouldReconnect ]_vars

\* a timer that was pending at disconnect(true) fired and did nothing
C16_Witness ==
  /\ ~ws.shouldReconnect
  /\ ws.client = "null"
  /\ ws.outcome = "timer:disabled"

\* C17: connect on a connected service invokes onConnected and changes
\* nothing else: same Client, subscriptions, counter
C17_ConnectIdempotent ==
  [][ ((\E hasToken \in BOOLEAN : WsConnect(hasToken)) /\ isConnected(ws))
      => ws' = [ws EXCEPT !.outcome = "connect:onConnected"] ]_vars

\* connect was called on a connected service that holds a subscription
C17_Witness ==
  /\ isConnected(ws)
  /\ ws.subscriptions # {}
  /\ ws.outcome = "connect:onConnected"

C19_DisconnectSynchronous ==
  [][ (\E p \in BOOLEAN : WsDisconnect(p))
      => /\ ws'.subscriptions = {}
         /\ ws'.client = "null"
         /\ ~isConnected(ws')
         /\ sendMessage(ws').outcome = "sendMessage:throw" ]_vars

\* a Client was torn down by disconnect and the next sendMessage threw
C19_Witness ==
  /\ ws.closing
  /\ ws.client = "null"
  /\ ws.subscriptions = {}
  /\ ws.outcome = "sendMessage:throw"

----------------------------------------------------------------------------
(* Page lifecycle: handlers as functions of W = [l: page, w: service,      *)
(* h: history request]                                                     *)

World(l, w, h) == [l |-> l, w |-> w, h |-> h]

AddTask(W, t) == [W EXCEPT !.l.tasks[t] = @ + 1]
DelTask(W, t) == [W EXCEPT !.l.tasks[t] = @ - 1]

PageKey(page) == IF page = "open" THEN OpenKey ELSE GroupKey

\* unsubscribe(roomId, roomType) followed by disconnect()
DropSocket(W) ==
  [W EXCEPT !.w = disconnect(unsubscribe(@, PageKey(W.l.page)), TRUE)]

\* the onConnected callback: the join's callback starts loadChatHistory and
\* subscribes; the callback of the reconnect after a refused leave only logs
OnConnected(W) ==
  IF W.w.onConnected = "page"
    THEN [W EXCEPT !.w = subscribe(@, PageKey(W.l.page)),
                   !.h = [state |-> "requested", snapshot |-> <<>>]]
    ELSE W

\* webSocketService.connect(callback, onError) as the join calls it
PageConnect(W, hasToken) ==
  IF isConnected(W.w)
    THEN OnConnected([W EXCEPT !.w.onConnected = "page"])
    ELSE [W EXCEPT !.w = connect(@, hasToken, "page")]

\* leaveRoom of the open room without its isLeavingRef guard
OpenLeaveRoomNoGuard(W, caller) ==
  AddTask([W EXCEPT !.l.isLeaving = TRUE,
                    !.l.marker = FALSE,
                    !.l.leaveCalls = @ + 1],
          <<caller, "leaveApi">>)

\* OpenStudyRoom.tsx leaveRoom up to await openStudyAPI.leaveRoom(roomId)
OpenLeaveRoom(W, caller) ==
  IF W.l.isLeaving
    THEN [W EXCEPT !.l.blocked = @ + 1]
    ELSE AddTask([W EXCEPT !.l.isLeaving = TRUE,
                           !.l.marker = FALSE,
                           !.l.leaveCalls = @ + 1],
                 <<caller, "leaveApi">>)

\* group room (WebSocket chat) leaveRoom up to await studyRoomAPI.leaveRoom
GwsLeaveRoom(W, caller) ==
  IF W.l.isLeaving
    THEN [W EXCEPT !.l.blocked = @ + 1]
    ELSE AddTask(DropSocket([W EXCEPT !.l.isLeaving = TRUE,
                                      !.l.leaveCalls = @ + 1]),
                 <<caller, "leaveApi">>)

\* GroupStudyRoom.tsx leaveRoom up to its first await; sid is the sessionId
\* of the closure that calls it
RestLeaveRoom(W, caller, sid) ==
  IF W.l.isLeaving
    THEN [W EXCEPT !.l.blocked = @ + 1]
    ELSE IF sid # 0
      THEN AddTask([W EXCEPT !.l.isLeaving = TRUE,
                             !.l.sessionEndCalls = @ + 1],
                   <<caller, "endSession">>)
      ELSE AddTask([W EXCEPT !.l.isLeaving = TRUE], <<caller, "endTimer">>)

\* leaveRoom of the mounted page; the closure of an effect cleanup was made
\* at the first render, where sessionId is still null
LeaveRoom(W, caller) ==
  CASE W.l.page = "open" -> OpenLeaveRoom(W, caller)
    [] W.l.page = "groupws" -> GwsLeaveRoom(W, caller)
    [] OTHER -> RestLeaveRoom(W, caller,
                  IF caller = "unmount" THEN 0 ELSE W.l.sessionId)

\* how the page is torn down: recorded when it is joined and not leaving
Torn(l) ==
  IF l.hasJoined /\ ~l.isLeaving
    THEN (IF l.sessionId # 0 THEN "session" ELSE "nosession")
    ELSE l.torn

\* cleanups of the open room's effects, in declaration order: the join
\* effect's (unsubscribe, disconnect), then the beforeunload effect's
OpenCleanup(W) ==
  LET W1 == IF W.l.hasJoined THEN DropSocket(W) ELSE W
  IN IF W1.l.hasJoined /\ ~W1.l.isLeaving
       THEN OpenLeaveRoom(W1, "unmount")
       ELSE W1

\* cleanups of the group room (WebSocket chat): timers and listener only
GwsCleanup(W) == W

\* cleanup of GroupStudyRoom.tsx's beforeunload effect
RestCleanup(W) ==
  IF W.l.hasJoined /\ ~W.l.isLeaving
    THEN RestLeaveRoom(W, "unmount", 0)
    ELSE W

\* the component unmounts (the timer effect's cleanup clears the interval)
Unmount(W) ==
  LET W1 == [W EXCEPT !.l.mounted = "unmounted", !.l.torn = Torn(W.l),
                      !.l.intervalRef = FALSE]
  IN CASE W.l.page = "open" -> OpenCleanup(W1)
       [] W.l.page = "groupws" -> GwsCleanup(W1)
       [] OTHER -> RestCleanup(W1)

\* navigate(...) away from the room route
Navigate(W) == IF W.l.mounted = "mounted" THEN Unmount(W) ELSE W

\* the open room's handleBeforeUnload, with a leave request as the group
\* rooms send it
OpenBeforeUnloadLeaving(W) ==
  IF W.l.hasJoined /\ ~W.l.isLeaving
    THEN [W EXCEPT !.l.marker = FALSE, !.l.isLeaving = TRUE,
                   !.l.leaveCalls = @ + 1]
    ELSE W

\* OpenStudyRoom.tsx handleBeforeUnload
OpenBeforeUnload(W) ==
  IF W.l.hasJoined /\ ~W.l.isLeaving
    THEN [W EXCEPT !.l.marker = FALSE]
    ELSE W

\* group room (WebSocket chat) handleBeforeUnload: keepalive POST .../leave
GwsBeforeUnload(W) ==
  IF W.l.hasJoined /\ ~W.l.isLeaving
    THEN DropSocket([W EXCEPT !.l.isLeaving = TRUE,
                              !.l.leaveCalls = @ + 1])
    ELSE W

\* GroupStudyRoom.tsx handleBeforeUnload: the closure's sessionId is null,
\* so only the timer-end and leave requests are sent
RestBeforeUnload(W) ==
  IF W.l.hasJoined /\ ~W.l.isLeaving
    THEN [W EXCEPT !.l.isLeaving = TRUE, !.l.leaveCalls = @ + 1]
    ELSE W

\* handleExitRoom of the open room after its session-end block
OpenExitAfterSession(W) ==
  LET W1 == DropSocket(W)
  IN IF W1.l.isLeaving
       THEN Navigate(OpenLeaveRoom(W1, "exit"))
       ELSE OpenLeaveRoom(W1, "exit")

\* handleExitRoom up to its first await
ExitRoom(W) ==
  LET W0 == [W EXCEPT !.l.exitClicks = @ + 1]
  IN IF W.l.page = "open"
       THEN IF W0.l.sessionId # 0
              THEN AddTask([W0 EXCEPT !.l.sessionEndCalls = @ + 1],
                           <<"exit", "endSession">>)
              ELSE OpenExitAfterSession(W0)
       ELSE IF W0.l.isLeaving
              THEN Navigate(LeaveRoom(W0, "exit"))
              ELSE LeaveRoom(W0, "exit")

\* the tail of a leave sequence started by handleExitRoom: toast, navigate
AfterLeave(W, caller) == IF caller = "exit" THEN Navigate(W) ELSE W

\* leaveRoom after the leave-membership call, the open room keeping its
\* joined flag when the call failed
LeaveSettledKeepOnError(W, caller, result, hasToken) ==
  LET W1 == [DelTask(W, <<caller, "leaveApi">>) EXCEPT !.l.leaveResult = result]
  IN CASE W.l.page = "open" ->
            IF result = "ok"
              THEN [W1 EXCEPT !.l.hasJoined = FALSE, !.l.marker = FALSE]
              ELSE [W1 EXCEPT !.l.marker = FALSE]
       [] W.l.page = "groupws" ->
            IF result = "creator"
              THEN [W1 EXCEPT !.l.isLeaving = FALSE,
                              !.w = connect(@, hasToken, "log")]
              ELSE [W1 EXCEPT !.l.sessionId = 0,
                              !.l.hasJoined = FALSE,
                              !.l.isLeaving = FALSE]
       [] OTHER -> [W1 EXCEPT !.l.hasJoined = FALSE]

\* leaveRoom after the leave-membership call settled
LeaveSettled(W, caller, result, hasToken) ==
  LET W1 == [DelTask(W, <<caller, "leaveApi">>) EXCEPT !.l.leaveResult = result]
  IN CASE W.l.page = "open" ->
            [W1 EXCEPT !.l.hasJoined = FALSE, !.l.marker = FALSE]
       [] W.l.page = "groupws" ->
            IF result = "creator"
              THEN [W1 EXCEPT !.l.isLeaving = FALSE,
                              !.w = connect(@, hasToken, "log")]
              ELSE [W1 EXCEPT !.l.sessionId = 0,
                              !.l.hasJoined = FALSE,
                              !.l.isLeaving = FALSE]
       [] OTHER -> [W1 EXCEPT !.l.hasJoined = FALSE]

----------------------------------------------------------------------------
(* Page lifecycle: steps *)

Now == World(life, ws, hist)

\* the page runs: it was not discarded by a page unload
Alive == life.mounted # "unloaded"

Step(W) ==
  /\ life' = W.l
  /\ ws' = W.w
  /\ hist' = W.h
  /\ UNCHANGED <<dupCalls, lastInbound, messages, serverLog, liveQueue,
                 acceptPending, liveSeen, solveApplied>>

\* the join's connect step; the open room then awaits startSession, the
\* group room sets hasJoinedRef and awaits the level and timer queries
JoinConnect(W, hasToken) ==
  LET W1 == PageConnect(W, hasToken)
  IN IF W.l.page = "open"
       THEN [W1 EXCEPT !.l.joinPc = "session", !.l.sessionStarts = @ + 1]
       ELSE [W1 EXCEPT !.l.hasJoined = TRUE, !.l.joinPc = "status"]

\* joinRoom after getRoom, setting the marker before it gives up
JoinGotRoomMarking(ok, isCreator, hasToken) ==
  /\ Alive
  /\ life.joinPc = "getRoom"
  /\ Step(IF ~ok
            THEN (IF life.page = "open"
                    THEN Navigate([Now EXCEPT !.l.joinPc = "aborted",
                                              !.l.marker = TRUE])
                    ELSE [Now EXCEPT !.l.joinPc = "aborted"])
            ELSE IF life.page = "open" /\ isCreator
              THEN JoinConnect(Now, hasToken)
              ELSE [Now EXCEPT !.l.joinPc = "joinApi",
                               !.l.joinCalls = @ + 1])

\* joinRoom resumes after getRoom
JoinGotRoom(ok, isCreator, hasToken) ==
  /\ Alive
  /\ life.joinPc = "getRoom"
  /\ Step(IF ~ok
            THEN (IF life.page = "open"
                    THEN Navigate([Now EXCEPT !.l.joinPc = "aborted"])
                    ELSE [Now EXCEPT !.l.joinPc = "aborted"])
            ELSE IF life.page = "open" /\ isCreator
              THEN JoinConnect(Now, hasToken)
              ELSE [Now EXCEPT !.l.joinPc = "joinApi",
                               !.l.joinCalls = @ + 1])

\* joinRoom after the join-membership call, every error being fatal in the
\* open room
JoinApiSettledStrict(result, hasToken) ==
  /\ Alive
  /\ life.joinPc = "joinApi"
  /\ LET W == [Now EXCEPT !.l.joinResult = result]
     IN Step(CASE life.page = "open" /\ result # "ok" ->
                    Navigate([W EXCEPT !.l.marker = FALSE,
                                       !.l.joinPc = "aborted"])
               [] life.page = "grouprest" ->
                    [W EXCEPT !.l.hasJoined = TRUE, !.l.joinPc = "session",
                              !.l.sessionStarts = @ + 1]
               [] OTHER -> JoinConnect(W, hasToken))

\* joinRoom resumes after the join-membership call: the open room treats
\* "already joined" as success and any other error as fatal, the group rooms
\* ignore every error
JoinApiSettled(result, hasToken) ==
  /\ Alive
  /\ life.joinPc = "joinApi"
  /\ LET W == [Now EXCEPT !.l.joinResult = result]
     IN Step(CASE life.page = "open" /\ result = "error" ->
                    Navigate([W EXCEPT !.l.marker = FALSE,
                                       !.l.joinPc = "aborted"])
               [] life.page = "grouprest" ->
                    [W EXCEPT !.l.hasJoined = TRUE, !.l.joinPc = "session",
                              !.l.sessionStarts = @ + 1]
               [] OTHER -> JoinConnect(W, hasToken))

\* joinRoom after startSession, a failed session start being fatal in the
\* open room
JoinSessionSettledFatal(ok) ==
  /\ Alive
  /\ life.joinPc = "session"
  /\ LET W1 == IF ok
                 THEN [Now EXCEPT !.l.sessionId = 1,
                                  !.l.currentSeconds =
                                     IF life.page = "open" THEN 0 ELSE @]
                 ELSE Now
     IN Step(IF life.page = "open"
               THEN (IF ok
                       THEN [W1 EXCEPT !.l.marker = TRUE,
                                       !.l.hasJoined = TRUE,
                                       !.l.joinPc = "done"]
                       ELSE Navigate([W1 EXCEPT !.l.joinPc = "aborted"]))
               ELSE [W1 EXCEPT !.l.joinPc = "status"])

\* joinRoom resumes after sessionAPI.startSession
JoinSessionSettled(ok) ==
  /\ Alive
  /\ life.joinPc = "session"
  /\ LET W1 == IF ok
                 THEN [Now EXCEPT !.l.sessionId = 1,
                                  !.l.currentSeconds =
                                     IF life.page = "open" THEN 0 ELSE @]
                 ELSE Now
     IN Step(IF life.page = "open"
               THEN [W1 EXCEPT !.l.marker = TRUE,
                               !.l.hasJoined = TRUE,
                               !.l.joinPc = "done"]
               ELSE [W1 EXCEPT !.l.joinPc = "status"])

\* the group rooms' joinRoom ends after its timer / level queries
JoinStatusSettled ==
  /\ Alive
  /\ life.joinPc = "status"
  /\ Step([Now EXCEPT !.l.joinPc = "done"])

\* the group rooms' setTimeout(() => navigate("/group-study"), 3000)
AbortNavigate ==
  /\ Alive
  /\ life.joinPc = "aborted"
  /\ life.page # "open"
  /\ Step(Navigate([Now EXCEPT !.l.joinPc = "routed"]))

\* the transport is up: Client.onConnect runs the onConnected callback
TransportUp ==
  /\ Alive
  /\ ws.client = "activating"
  /\ Step(OnConnected([Now EXCEPT !.w = onConnect(@)]))

\* the user confirms the exit dialog
ExitClick ==
  /\ life.mounted = "mounted"
  /\ life.joinPc = "done"
  /\ life.exitClicks < MaxExit
  /\ Step(ExitRoom(Now))

\* sessionAPI.endSession settled: in the open room handleExitRoom goes on,
\* in GroupStudyRoom.tsx leaveRoom goes on to timerAPI.endTimer
SessionEndSettled(caller, ok) ==
  /\ Alive
  /\ life.tasks[<<caller, "endSession">>] > 0
  /\ LET W1 == DelTask(Now, <<caller, "endSession">>)
         W2 == IF ok THEN [W1 EXCEPT !.l.sessionId = 0] ELSE W1
         W3 == IF ok
                 THEN [W2 EXCEPT !.l.intervalRef = FALSE,
                                 !.l.currentSeconds = 0]
                 ELSE W2
     IN Step(IF life.page = "open"
               THEN OpenExitAfterSession(W3)
               ELSE AddTask(W2, <<caller, "endTimer">>))

\* GroupStudyRoom.tsx leaveRoom: timerAPI.endTimer settled, the
\* leave-membership call is issued
TimerEndSettled(caller) ==
  /\ Alive
  /\ life.tasks[<<caller, "endTimer">>] > 0
  /\ Step(AddTask([DelTask(Now, <<caller, "endTimer">>)
                     EXCEPT !.l.leaveCalls = @ + 1],
                  <<caller, "leaveApi">>))

\* the leave-membership call settled
LeaveApiSettled(caller, result, hasToken) ==
  /\ Alive
  /\ life.tasks[<<caller, "leaveApi">>] > 0
  /\ Step(AfterLeave(LeaveSettled(Now, caller, result, hasToken), caller))

\* the user navigates to another route of the application
UserNavigate ==
  /\ life.mounted = "mounted"
  /\ Step(Unmount(Now))

\* the beforeunload event of a refresh or tab close; the page is discarded
PageUnload ==
  /\ life.mounted = "mounted"
  /\ LET W1 == CASE life.page = "open" -> OpenBeforeUnload(Now)
                 [] life.page = "groupws" -> GwsBeforeUnload(Now)
                 [] OTHER -> RestBeforeUnload(Now)
     IN Step([W1 EXCEPT !.l.mounted = "unloaded"])

\* loadChatHistory of the running page resumes with the response
PageHistoryResponse == Alive /\ HistoryResponse

\* loadChatHistory of the running page resumes in its catch
PageHistoryFail == Alive /\ HistoryFail

InitLife ==
  /\ ws = WSNew
  /\ \E page \in Pages : life = Mounted(page)
  /\ dupCalls = NoCalls /\ lastInbound = <<>>
  /\ messages = <<>>
  /\ serverLog = <<>>
  /\ liveQueue = <<>>
  /\ hist = [state |-> "idle", snapshot |-> <<>>]
  /\ acceptPending = NoPending
  /\ liveSeen = {}
  /\ solveApplied = NoSolves

NextLife ==
  \/ \E ok \in BOOLEAN : \E isCreator \in BOOLEAN : \E hasToken \in BOOLEAN :
       JoinGotRoom(ok, isCreator, hasToken)
  \/ \E result \in {"ok", "already", "error"} : \E hasToken \in BOOLEAN :
       JoinApiSettled(result, hasToken)
  \/ \E ok \in BOOLEAN : JoinSessionSettled(ok)
  \/ JoinStatusSettled
  \/ AbortNavigate
  \/ TransportUp
  \/ ExitClick
  \/ \E caller \in Callers : \E ok \in BOOLEAN : SessionEndSettled(caller, ok)
  \/ \E caller \in Callers : TimerEndSettled(caller)
  \/ \E caller \in Callers : \E result \in {"ok", "creator", "error"} :
       \E hasToken \in BOOLEAN : LeaveApiSettled(caller, result, hasToken)
  \/ UserNavigate
  \/ PageUnload
  \/ ServeHistory
  \/ PageHistoryResponse
  \/ PageHistoryFail

SpecLife == InitLife /\ [][NextLife]_vars

----------------------------------------------------------------------------
(* Lifecycle claims *)

\* leaveRoom invocations that have passed the guard and not yet returned
LeavesInFlight(l) ==
  l.tasks[<<"exit", "leaveApi">>] + l.tasks[<<"unmount", "leaveApi">>]
  + (IF l.page = "grouprest"
       THEN l.tasks[<<"exit", "endSession">>] + l.tasks[<<"exit", "endTimer">>]
            + l.tasks[<<"unmount", "endSession">>]
            + l.tasks[<<"unmount", "endTimer">>]
       ELSE 0)

\* C3: after the open room was unmounted by navigation while joined, with a
\* session and no leave in progress, and every call has settled,
\* leave-membership and session-end were each invoked exactly once
C3_UnmountLeavesOnce ==
  (life.page = "open" /\ life.torn = "session" /\ life.tasks = NoTasks)
    => (life.leaveCalls = 1 /\ life.sessionEndCalls = 1)

\* C4: a refresh / tab-close signal in the joined open room clears the
\* current-room marker and issues no leave-membership and no session-end call
C4_RefreshKeepsMembership ==
  [][( /\ life.page = "open"
       /\ life.hasJoined
       /\ life.mounted = "mounted"
       /\ life'.mounted = "unloaded" )
     => ( /\ ~life'.marker
          /\ life'.leaveCalls = life.leaveCalls
          /\ life'.sessionEndCalls = life.sessionEndCalls
          /\ life'.tasks = life.tasks )]_vars

\* the open room was unloaded while joined with a session, nothing was sent
C4_Witness ==
  /\ life.page = "open"
  /\ life.mounted = "unloaded"
  /\ life.hasJoined /\ ~life.isLeaving
  /\ life.sessionId # 0
  /\ ~life.marker
  /\ life.leaveCalls = 0 /\ life.sessionEndCalls = 0

\* C5: in a joined group room a refresh / tab-close signal sends no
\* leave-membership request, and an unmount by navigation starts the leave
\* sequence with the topic unsubscribed and the transport disconnected
C5_GroupRefreshVsNavigate ==
  [][( /\ life.page # "open"
       /\ life.hasJoined /\ ~life.isLeaving
       /\ life.mounted = "mounted" )
     => ( /\ life'.mounted = "unloaded"
               => life'.leaveCalls = life.leaveCalls
          /\ life'.mounted = "unmounted"
               => ( /\ life'.isLeaving
                    /\ GroupKey \notin ws'.subscriptions
                    /\ ws'.client = "null" ) )]_vars

\* C6: at most one leaveRoom invocation is past the guard at any time, and
\* leave-membership is requested at most once for the mounted page
C6_LeaveGuard ==
  /\ LeavesInFlight(life) <= 1
  /\ life.leaveCalls <= 1

\* a second leave call was made in the open room while the first was in
\* flight, and returned at the guard
C6_Witness ==
  /\ life.page = "open"
  /\ life.blocked >= 1
  /\ LeavesInFlight(life) = 1
  /\ life.leaveCalls = 1

\* C14: in the open room, an active membership (hasJoined, no leave in
\* progress) has the room's topic subscribed, and the topic is subscribed
\* only while hasJoined is set
C14_JoinedIffSubscribed ==
  life.page = "open" =>
    /\ (life.hasJoined /\ ~life.isLeaving) => OpenKey \in ws.subscriptions
    /\ OpenKey \in ws.subscriptions => life.hasJoined

----------------------------------------------------------------------------
(* The open room's chat over an unreliable transport: sending messages and  *)
(* answers, live delivery, history, drops and reconnects                    *)

\* the page calls webSocketService.sendMessage; a published frame is stored
\* by the server and broadcast to the topic's subscriptions; a throw is
\* caught by the page, which shows a toast
PageSend(type, refId) ==
  /\ Len(serverLog) < MaxId
  /\ ws' = sendMessage(ws)
  /\ IF ws'.outcome = "sendMessage:published"
       THEN LET e == Wire(Len(serverLog) + 1, type, refId, FALSE)
            IN /\ serverLog' = Append(serverLog, e)
               /\ liveQueue' = Broadcast(liveQueue, e)
       ELSE UNCHANGED <<serverLog, liveQueue>>
  /\ UNCHANGED <<messages, hist, acceptPending, liveSeen, solveApplied>>
  /\ UNCHANGED <<dupCalls, lastInbound, life>>

\* handleSendMessage: a QUESTION in question mode, a TALK otherwise
handleSendMessage(isQuestionMode) ==
  PageSend(IF isQuestionMode THEN "QUESTION" ELSE "TALK", 0)

\* handleSubmitAnswer(questionId): the answer form of a question shown in
\* the timeline
handleSubmitAnswer(questionId) ==
  /\ HasQuestion(messages, questionId)
  /\ PageSend("ANSWER", questionId)

\* the transport fails and the Client goes back to connecting; the
\* service's own reconnect timers are the subject of SpecReconnect
ChatDrop == WsDrop(FALSE)

\* the transport is up (again): Client.onConnect runs the page's callback
ChatOnConnect ==
  /\ ws.client = "activating"
  /\ LET W == OnConnected(World(life, onConnect(ws), hist))
     IN ws' = W.w /\ hist' = W.h
  /\ UNCHANGED <<messages, serverLog, liveQueue, acceptPending, liveSeen,
                 solveApplied>>
  /\ UNCHANGED <<dupCalls, lastInbound, life>>

NextChat ==
  \/ ConnectCallback
  \/ ServeHistory
  \/ HistoryResponse
  \/ HistoryFail
  \/ LiveDeliver
  \/ \E isQuestionMode \in BOOLEAN : handleSendMessage(isQuestionMode)
  \/ \E questionId \in 1..MaxId : handleSubmitAnswer(questionId)
  \/ ChatDrop
  \/ ChatOnConnect

SpecChat == InitTimeline /\ [][NextChat]_vars

\* the step is a send-message or submit-answer action of the page
SendStep ==
  \/ \E isQuestionMode \in BOOLEAN : handleSendMessage(isQuestionMode)
  \/ \E questionId \in 1..MaxId : handleSubmitAnswer(questionId)

\* C20: a send-message or submit-answer action on a service that is not
\* connected gets the not-connected error, nothing reaches the server or the
\* topic, and the timeline is unchanged
C20_SendWhileDisconnected ==
  [][ (SendStep /\ ~isConnected(ws))
      => /\ ws'.outcome = "sendMessage:throw"
         /\ serverLog' = serverLog
         /\ liveQueue' = liveQueue
         /\ messages' = messages ]_vars

\* an answer or message was sent after the transport dropped, with a
\* question in the timeline
C20_Witness ==
  /\ ~isConnected(ws)
  /\ ws.outcome = "sendMessage:throw"
  /\ \E i \in 1..Len(messages) : messages[i].type = "QUESTION"

----------------------------------------------------------------------------
(* The room route's :roomId changes while the page stays mounted: the       *)
(* effects that depend on roomId are cleaned up and run again, the refs     *)
(* keep their values                                                        *)

\* the join effect's body: joinRoom() starts unless hasJoinedRef is set
JoinEffect(W) ==
  IF W.l.hasJoined THEN W ELSE [W EXCEPT !.l.joinPc = "getRoom"]

\* cleanups of the effects with roomId in their dependencies, then the
\* effects again
RoomChange ==
  /\ life.mounted = "mounted"
  /\ life.joinPc = "done"
  /\ life.rejoins < MaxRejoin
  /\ LET W0 == [Now EXCEPT !.l.rejoins = @ + 1]
         W1 == CASE life.page = "open" -> OpenCleanup(W0)
                 [] life.page = "groupws" -> GwsCleanup(W0)
                 [] OTHER -> RestCleanup(W0)
     IN Step(JoinEffect(W1))

NextRejoin ==
  \/ NextLife
  \/ RoomChange

SpecRejoin == InitLife /\ [][NextRejoin]_vars

\* C26: in the open room, whenever the page is ACTIVE (joined, join
\* finished, no leave or exit call in flight), also after an earlier leave
\* and a new join on the same mounted page, leaving by navigation requests
\* leave-membership
C26_LeaveAfterRejoin ==
  [][ ( /\ life.page = "open"
        /\ life.mounted = "mounted"
        /\ life.hasJoined
        /\ life.joinPc = "done"
        /\ life.tasks = NoTasks
        /\ UserNavigate )
      => life'.leaveCalls = life.leaveCalls + 1 ]_vars

----------------------------------------------------------------------------
(* The join's timeout.  Calls to the collaborators may never settle, timers *)
(* run                                                                      *)

\* joinRoom is at one of its awaits
Joining(l) == l.joinPc \in {"getRoom", "joinApi", "session", "status"}

\* the group rooms' setTimeout(..., 30000) callback: the closure's loading
\* is the initial true, so the loading flag is cleared and a toast is shown;
\* the timer is cleared when joinRoom ends and in the effect's cleanup
JoinTimeout ==
  /\ life.page # "open"
  /\ life.mounted = "mounted"
  /\ Joining(life)
  /\ ~life.timedOut
  /\ Step([Now EXCEPT !.l.timedOut = TRUE])

NextJoinTimeout ==
  \/ NextLife
  \/ JoinTimeout

SpecJoinTimeout ==
  InitLife /\ [][NextJoinTimeout]_vars /\ WF_vars(JoinTimeout)

\* C27: a join attempt of a mounted page leaves the JOINING state (the join
\* ends ACTIVE or aborted, or the page is routed away) even when a call to a
\* collaborator never settles
C27_JoinLeavesJoining ==
  (life.mounted = "mounted" /\ Joining(life))
    ~> (~Joining(life) \/ life.mounted # "mounted")

----------------------------------------------------------------------------
(* Accepted answers *)

Accepted(msg) == {j \in 1..Len(msg.answers) : msg.answers[j].isAccepted}

\* C33: every question of the timeline has at most one answer marked
\* accepted
C33_OneAcceptedAnswer ==
  \A i \in 1..Len(messages) :
    messages[i].type = "QUESTION" => Cardinality(Accepted(messages[i])) <= 1

----------------------------------------------------------------------------
(* The history response and the live events handled before it *)

\* <<id, type>> of the timeline's TALK, QUESTION and SYSTEM entries
Appended(msgs) ==
  LET Live(m) == m.type \in {"TALK", "QUESTION", "SYSTEM"}
      kept == SelectSeq(msgs, Live)
  IN [i \in 1..Len(kept) |-> <<kept[i].id, kept[i].type>>]

\* a is b less some of its elements
RECURSIVE IsSubseq(_, _)
IsSubseq(a, b) ==
  IF a = <<>> THEN TRUE
  ELSE IF b = <<>> THEN FALSE
  ELSE IF Head(a) = Head(b) THEN IsSubseq(Tail(a), Tail(b))
  ELSE IsSubseq(a, Tail(b))

\* C34: when loadChatHistory completes (with a page, an empty page or a
\* failure), the TALK, QUESTION and SYSTEM entries the live events appended
\* before are still in the timeline, in their order
C34_HistoryKeepsLiveEvents ==
  [][ (HistoryResponse \/ HistoryFail) =>
        IsSubseq(Appended(messages), Appended(messages')) ]_vars

----------------------------------------------------------------------------
(* Accepting an answer and deleting a question.  The timeline is the one   *)
(* the live frames build: the history request is not answered here         *)

NextModerate ==
  \/ \E type \in {"QUESTION", "ANSWER"} : \E refId \in 0..MaxId :
       refId <= Len(serverLog) /\ ServerPost(type, refId)
  \/ ConnectCallback
  \/ LiveDeliver
  \/ \E q \in 1..MaxId : \E a \in 1..MaxId : \E ok \in BOOLEAN :
       AcceptRequest(q, a, ok)
  \/ AcceptResponse
  \/ \E q \in 1..MaxId : \E ok \in BOOLEAN : DeleteRequest(q, ok)
  \/ DeleteResponse

SpecModerate == InitTimeline /\ [][NextModerate]_vars

\* the entries of msgs before position i whose id is q
Before(msgs, i, q) == Cardinality({j \in 1..(i - 1) : msgs[j].id = q})

\* after is msgs less its entries of id q, the others kept as they are and
\* in their order
RemovedOnly(msgs, after, q) ==
  /\ Len(after) = Len(msgs) - Before(msgs, Len(msgs) + 1, q)
  /\ \A i \in 1..Len(msgs) :
       msgs[i].id # q => after[i - Before(msgs, i, q)] = msgs[i]

\* C29: a failed answer-accept and a failed delete leave the timeline as it
\* was; a successful delete removes the entries of the given question id
\* and changes no other entry
C29_FailedCallsKeepTimeline ==
  [][ /\ (AcceptResponse /\ ~acceptPending.ok) => messages' = messages
      /\ (DeleteResponse /\ ~life.deleting.ok) => messages' = messages
      /\ (DeleteResponse /\ life.deleting.ok) =>
           RemovedOnly(messages, messages', life.deleting.questionId) ]_vars

\* C29 witness: a delete is about to settle for a question of a timeline
\* that holds another entry and an answer
C29_Witness ==
  /\ life.deleting # NoDelete
  /\ HasQuestion(messages, life.deleting.questionId)
  /\ \E i \in 1..Len(messages) : messages[i].id # life.deleting.questionId
  /\ \E i \in 1..Len(messages) : messages[i].answers # <<>>

----------------------------------------------------------------------------
(* The open room's study timer *)

\* the timer effect, re-run when myStatus changes: the old interval is
\* cleared and a new one is started only while studying
timerEffect(W) ==
  [W EXCEPT !.l.intervalRef = (W.l.myStatus = "studying")]

\* handleStatusToggle without the timer effect's re-run
handleStatusToggleNoEffect(W, newStatus) ==
  IF W.l.myStatus = newStatus
    THEN W
    ELSE [W EXCEPT !.l.myStatus = newStatus]

handleStatusToggle(W, newStatus) ==
  IF W.l.myStatus = newStatus
    THEN W
    ELSE timerEffect([W EXCEPT !.l.myStatus = newStatus])

handleTimerReset(W) == [W EXCEPT !.l.currentSeconds = 0]

\* the page is rendered with its controls (loading is false)
Rendered ==
  life.page = "open" /\ life.mounted = "mounted" /\ life.joinPc = "done"

\* the interval's callback: setCurrentSeconds(prev => prev + 1)
TimerTick ==
  /\ Alive
  /\ life.intervalRef
  /\ life.currentSeconds < MaxSeconds
  /\ Step([Now EXCEPT !.l.currentSeconds = @ + 1])

\* handleStatusToggle's notice, appended whatever the status was
statusNoticeAlways(msgs, myStatus, newStatus) == addSystemMessage(msgs)

\* handleStatusToggle: the timeline after its addSystemMessage calls
statusNotice(msgs, myStatus, newStatus) ==
  IF myStatus = newStatus THEN msgs
  ELSE IF newStatus = "resting" /\ myStatus = "studying"
    THEN addSystemMessage(msgs)
  ELSE IF newStatus = "studying" /\ myStatus = "resting"
    THEN addSystemMessage(msgs)
  ELSE msgs

StatusToggle(newStatus) ==
  /\ Rendered
  /\ Len(messages) < MaxId
  /\ LET W == handleStatusToggle(Now, newStatus)
     IN life' = W.l /\ ws' = W.w /\ hist' = W.h
  /\ messages' = statusNotice(messages, life.myStatus, newStatus)
  /\ UNCHANGED <<dupCalls, lastInbound, serverLog, liveQueue, acceptPending,
                 liveSeen, solveApplied>>

TimerReset ==
  /\ Rendered
  /\ Step(handleTimerReset(Now))

NextTimer ==
  \/ NextLife
  \/ TimerTick
  \/ \E newStatus \in {"studying", "resting"} : StatusToggle(newStatus)
  \/ TimerReset

SpecTimer == InitLife /\ [][NextTimer]_vars

\* C28: while the status is resting the counter does not grow (it keeps its
\* value, a change of status included, or is set to 0) and no interval
\* exists; the counter decreases only in a reset, a successful session
\* start or a successful session end
C28_TimerPause ==
  [][ /\ life.myStatus = "resting" =>
           /\ ~life.intervalRef
           /\ life'.currentSeconds \in {life.currentSeconds, 0}
      /\ life'.myStatus # life.myStatus =>
           life'.currentSeconds = life.currentSeconds
      /\ life'.currentSeconds < life.currentSeconds =>
           \/ TimerReset
           \/ JoinSessionSettled(TRUE)
           \/ \E caller \in Callers : SessionEndSettled(caller, TRUE) ]_vars

\* C32: a timer reset sets the counter to 0 and leaves the status, the
\* timeline and the session id as they are; a toggle to the status already
\* held changes nothing; a toggle to the other status sets it and appends
\* one SYSTEM notice to the timeline
C32_ResetAndToggleEffects ==
  [][ /\ TimerReset =>
           /\ life'.currentSeconds = 0
           /\ life'.myStatus = life.myStatus
           /\ life'.sessionId = life.sessionId
           /\ messages' = messages
      /\ \A newStatus \in {"studying", "resting"} :
           StatusToggle(newStatus) =>
             IF life.myStatus = newStatus
               THEN life' = life /\ messages' = messages
               ELSE /\ life'.myStatus = newStatus
                    /\ Len(messages') = Len(messages) + 1
                    /\ SubSeq(messages', 1, Len(messages)) = messages
                    /\ messages'[Len(messages')].type = "SYSTEM" ]_vars

\* C32 witness: in a running session the status was switched, notices are
\* in the timeline, and the counter is at 0 while resting
C32_Witness ==
  /\ life.page = "open" /\ life.mounted = "mounted"
  /\ life.sessionId # 0
  /\ life.myStatus = "resting"
  /\ life.currentSeconds = 0
  /\ Len(messages) >= 3

\* C28 witness: the timer is paused at a value a tick would change, in a
\* running session
C28_Witness ==
  /\ life.page = "open" /\ life.mounted = "mounted"
  /\ life.myStatus = "resting"
  /\ life.currentSeconds \in 1..(MaxSeconds - 1)
  /\ life.sessionId # 0

----------------------------------------------------------------------------
(* The join effect re-triggered while joinRoom is in flight *)

\* a dependency of the join effect (user, roomId) changes while joinRoom is
\* at an await: the cleanups run, then the effect's body.  joinPc follows
\* the joinRoom call started last; the overtaken call's remaining steps
\* are not followed
JoinRetrigger ==
  /\ life.mounted = "mounted"
  /\ Joining(life)
  /\ life.rejoins < MaxRejoin
  /\ LET W0 == [Now EXCEPT !.l.rejoins = @ + 1]
         W1 == CASE life.page = "open" -> OpenCleanup(W0)
                 [] life.page = "groupws" -> GwsCleanup(W0)
                 [] OTHER -> RestCleanup(W0)
     IN Step(JoinEffect(W1))

NextRetrigger ==
  \/ NextLife
  \/ JoinRetrigger

SpecRetrigger == InitLife /\ [][NextRetrigger]_vars

\* C37: whatever re-runs of the join effect happen before the joined flag
\* is set, the open room issues join-membership and session-start at most
\* once
C37_OneJoinInFlight ==
  life.page = "open" => life.joinCalls <= 1 /\ life.sessionStarts <= 1

----------------------------------------------------------------------------
(* Overlapping exits *)

\* C39: the open room never has two session-end calls in flight: an exit
\* confirmed while the session-end call of an earlier exit is pending does
\* not call session-end again for the session
C39_SessionEndOnce ==
  life.page = "open" => life.tasks[<<"exit", "endSession">>] <= 1

----------------------------------------------------------------------------
(* Teardown while the join is in progress *)

\* the open room was unmounted before its join had set hasJoinedRef (no
\* exit was clicked and the cleanups found nothing to leave), and the join
\* sequence has since run to its end
JoinEndedAfterUnmount ==
  /\ life.page = "open"
  /\ life.mounted = "unmounted"
  /\ life.exitClicks = 0
  /\ life.torn = "no"
  /\ life.joinPc = "done"
  /\ life.tasks = NoTasks

\* C36: once a join that was overtaken by the unmount has finished, no
\* subscription, no Client, no started session and no membership of that
\* join is left without its unsubscribe, disconnect, session-end and
\* leave-membership
C36_TeardownDuringJoin ==
  JoinEndedAfterUnmount =>
    /\ ws.subscriptions = {}
    /\ ws.client = "null"
    /\ life.sessionId # 0 => life.sessionEndCalls > 0
    /\ life.joinResult \in {"ok", "already"} => life.leaveCalls > 0

----------------------------------------------------------------------------
(* Join and leave: error handling *)

\* C21: once the open room's join was aborted by a failed room-metadata
\* fetch, join-membership was not called, there is no Client and no
\* subscription, no session was started, the marker is not set, the joined
\* flag is false and the page was routed away
C21_RoomFetchFailureAborts ==
  ( /\ life.page = "open"
    /\ life.joinPc = "aborted"
    /\ life.joinResult = "none" )
  => /\ life.joinCalls = 0
     /\ life.sessionStarts = 0
     /\ ws.client = "null" /\ ws.subscriptions = {}
     /\ hist.state = "idle"
     /\ ~life.marker
     /\ ~life.hasJoined
     /\ life.sessionId = 0
     /\ life.mounted # "mounted"

\* the open room's join was aborted at the room-metadata fetch and the page
\* was unmounted by the navigation
C21_Witness ==
  /\ life.page = "open"
  /\ life.joinPc = "aborted"
  /\ life.joinCalls = 0
  /\ life.mounted = "unmounted"

\* C22: in the open room join-membership is called exactly when the user is
\* not the room's creator; an already-joined answer continues the join as a
\* success does (connect, session start); any other error aborts it: the
\* service is untouched and without a Client, no session is started, the
\* marker is absent, the joined flag is false and the page is routed away
C22_JoinMembershipStep ==
  [][ life.page = "open" =>
      /\ \A hasToken \in BOOLEAN :
           /\ JoinGotRoom(TRUE, FALSE, hasToken)
                => life'.joinCalls = life.joinCalls + 1
           /\ JoinGotRoom(TRUE, TRUE, hasToken)
                => (life'.joinCalls = life.joinCalls /\ life'.joinPc = "session")
           /\ JoinApiSettled("already", hasToken)
                => /\ life'.joinPc = "session"
                   /\ life'.sessionStarts = life.sessionStarts + 1
                   /\ ws' = (PageConnect(Now, hasToken)).w
           /\ JoinApiSettled("error", hasToken)
                => /\ life'.joinPc = "aborted"
                   /\ ws' = ws /\ ws.client = "null"
                   /\ life'.sessionStarts = 0
                   /\ ~life'.marker
                   /\ ~life'.hasJoined
                   /\ life'.mounted # "mounted"
      /\ life'.joinCalls # life.joinCalls =>
           \E hasToken \in BOOLEAN : JoinGotRoom(TRUE, FALSE, hasToken) ]_vars

\* the open room became ACTIVE after join-membership answered already-joined
C22_Witness ==
  /\ life.page = "open"
  /\ life.joinResult = "already"
  /\ life.joinCalls = 1
  /\ life.joinPc = "done"
  /\ life.hasJoined /\ life.marker
  /\ OpenKey \in ws.subscriptions

\* C23: in the open room a failed session start still ends the join ACTIVE
\* (joined flag and marker set) with no sessionId, and a failed history load
\* empties the timeline and changes neither the membership nor the service
C23_NonFatalJoinErrors ==
  [][ life.page = "open" =>
      /\ JoinSessionSettled(FALSE)
           => /\ life'.joinPc = "done"
              /\ life'.hasJoined /\ life'.marker
              /\ life'.sessionId = 0
              /\ life'.mounted = life.mounted
      /\ PageHistoryFail
           => /\ messages' = <<>>
              /\ life' = life
              /\ ws' = ws ]_vars

\* the open room is ACTIVE and subscribed after both its session start and
\* its history load failed
C23_Witness ==
  /\ life.page = "open"
  /\ life.mounted = "mounted"
  /\ life.joinPc = "done"
  /\ life.hasJoined /\ life.marker /\ ~life.isLeaving
  /\ life.sessionStarts = 1 /\ life.sessionId = 0
  /\ hist.state = "failed"
  /\ messages = <<>>
  /\ OpenKey \in ws.subscriptions

\* the step issues the leave-membership request of an exit sequence
ExitLeaveIssued ==
  life'.tasks[<<"exit", "leaveApi">>] > life.tasks[<<"exit", "leaveApi">>]

\* C24: in the open room's explicit leave, leave-membership is requested
\* only when the sequence's session-end has settled (or there is no session
\* to end), the service is untouched until then, and by the request the topic is unsubscribed and the service
\* disconnected with reconnection prevented; a failed session-end goes on
\* to leave-membership; and when leave-membership settles, with whatever
\* result, the marker is absent and the joined flag is false
C24_ExplicitLeaveOrder ==
  [][ life.page = "open" =>
      /\ ExitLeaveIssued
           => /\ \/ \E ok \in BOOLEAN : SessionEndSettled("exit", ok)
                 \/ (ExitClick /\ life.sessionId = 0)
              /\ OpenKey \notin ws'.subscriptions
              /\ ws'.client = "null"
              /\ ~ws'.shouldReconnect
      /\ (ExitClick /\ life.sessionId # 0)
           => (ws' = ws /\ life'.sessionEndCalls = life.sessionEndCalls + 1)
      /\ (SessionEndSettled("exit", FALSE) /\ ~life.isLeaving)
           => (ExitLeaveIssued /\ life'.leaveCalls = life.leaveCalls + 1)
      /\ \A result \in {"ok", "creator", "error"} :
           \A hasToken \in BOOLEAN :
             LeaveApiSettled("exit", result, hasToken)
               => /\ ~life'.marker
                  /\ ~life'.hasJoined
                  /\ life'.mounted # "mounted" ]_vars

\* an explicit leave finished although its session-end and its
\* leave-membership call both failed
C24_Witness ==
  /\ life.page = "open"
  /\ life.exitClicks = 1
  /\ life.sessionEndCalls = 1 /\ life.sessionId # 0
  /\ life.leaveCalls = 1 /\ life.leaveResult = "error"
  /\ life.tasks = NoTasks
  /\ ~life.marker /\ ~life.hasJoined
  /\ life.mounted = "unmounted"

\* C25: in the group room (WebSocket chat), when leave-membership settles
\* with whatever result, the joined flag is false, the topic is unsubscribed
\* and the service holds no Client
C25_GroupLeaveClearsState ==
  [][ life.page = "groupws" =>
      \A caller \in Callers : \A result \in {"ok", "creator", "error"} :
        \A hasToken \in BOOLEAN :
          LeaveApiSettled(caller, result, hasToken)
            => /\ ~life'.hasJoined
               /\ GroupKey \notin ws'.subscriptions
               /\ ws'.client = "null" ]_vars

====
